---------------------------- MODULE Spec2Model ----------------------------
(***************************************************************************)
(* A model of cetra3/mtcnn: src/src/mtcnn.rs (the Mtcnn session, run and   *)
(* overlay) and src/src/main.rs (the command line pipeline).               *)
(*                                                                         *)
(* Numbers.  An f32 coordinate is an integer count of 1/Scale pixel units  *)
(* (Scale = 2: halves), so that truncation by `as i32` / `as u32` is       *)
(* observable.  A u8 sample converted by `as f32` is exact and is kept as  *)
(* its integer value.  NaN and infinities are not modelled.                *)
(*                                                                         *)
(* The tensorflow engine, the image decoder/encoder and imageproc's        *)
(* drawing are collaborators outside the repository; they are modelled at  *)
(* the calls the source makes, by their documented behaviour.              *)
(***************************************************************************)
EXTENDS Integers, Sequences, FiniteSets, TLC

(* ------------------------------ bounds -------------------------------- *)
\* units per pixel of a modelled f32 coordinate
Scale == 2
\* longest `box` tensor and longest `prob` tensor the parser is tried on
MaxBoxLen == 8
MaxProbLen == 3
\* largest width and height of an image the input builder is tried on
MaxImgW == 2
MaxImgH == 2
\* width and height of the image overlay is tried on, and the longest
\* sequence of boxes handed to it
OvImgW == 4
OvImgH == 3
MaxBoxes == 2

VARIABLES
    \* parsing the engine output (mtcnn.rs 121-152, main.rs 83-110)
    bbox_res, prob_res, parseOut,
    \* building the engine input (mtcnn.rs 79-90, main.rs 48-58)
    inImg, input,
    \* overlay (mtcnn.rs 36-50): rasters[0] is the caller's `img`, rasters[c]
    \* the local `output_image` of call c; ov[c] is the position of call c
    rasters, ov,
    \* the shared session and its callers (mtcnn.rs 13-19, 53-153): mtcnn is
    \* the Mtcnn value, engine the detection the loaded graph computes,
    \* call[c] the locals of call c of run, args[a] a SessionRunArgs value
    mtcnn, engine, call, args,
    \* the command line pipeline (main.rs 36-132) and the output file
    m, outfile

varsParse == <<bbox_res, prob_res, parseOut>>
varsInput == <<inImg, input>>
varsOverlay == <<rasters, ov>>
varsRun == <<mtcnn, engine, call, args>>
varsMain == <<m, outfile>>
vars == <<bbox_res, prob_res, parseOut, inImg, input, rasters, ov,
          mtcnn, engine, call, args, m, outfile>>

\* the callers of overlay
OverlayCallers == {1, 2}

\* the concurrent callers of Mtcnn::run on the one session
RunCallers == {1, 2}

(* ------------------------------ helpers ------------------------------- *)
SeqsUpTo(S, n) == UNION {[1..k -> S] : k \in 0..n}

\* t[i] of a Tensor / slice, with the source's 0-based index
Index(t, i) == t[i + 1]

\* the <<x, y>> positions of a w by h image
Coords(w, h) == (0..(w - 1)) \X (0..(h - 1))

(* ---------------- values of locals not yet assigned ------------------- *)
EmptyRaster == [width |-> 0, height |-> 0, px |-> [c \in Coords(0, 0) |-> <<0, 0, 0, 0>>]]

TensorPending == [status |-> "pending", dims |-> <<>>, data |-> <<>>]

ParsePending == [status |-> "pending", bboxes |-> <<>>]

\* each group of variables while its part of the program is not running
IdleParse ==
    /\ bbox_res = <<>>
    /\ prob_res = <<>>
    /\ parseOut = ParsePending

IdleInput ==
    /\ inImg = EmptyRaster
    /\ input = TensorPending

OvIdle == [pc |-> "idle", bboxes |-> <<>>, k |-> 0, drawn |-> <<>>, ret |-> EmptyRaster]

IdleOverlay ==
    /\ rasters = [s \in {0} \cup OverlayCallers |-> EmptyRaster]
    /\ ov = [c \in OverlayCallers |-> OvIdle]

NoOutput == [status |-> "none", box |-> <<>>, prob |-> <<>>]

NoFeeds == [min_size |-> TensorPending, thresholds |-> TensorPending,
            factor |-> TensorPending, input |-> TensorPending]

\* SessionRunArgs::new()
ArgsEmpty == [feeds |-> NoFeeds, out |-> NoOutput]

CallIdle == [pc |-> "idle", img |-> EmptyRaster, input |-> TensorPending,
             bbox_res |-> <<>>, prob_res |-> <<>>, result |-> ParsePending,
             failedBefore |-> FALSE]

NoSession == [graph |-> {}, session |-> "none", min_size |-> TensorPending,
              thresholds |-> TensorPending, factor |-> TensorPending]

IdleRun ==
    /\ mtcnn = NoSession
    /\ engine = <<>>
    /\ call = [c \in RunCallers |-> CallIdle]
    /\ args = [c \in RunCallers |-> ArgsEmpty]

\* the locals of main before it starts
MainIdle == [pc |-> "off", outcome |-> "running", trail |-> <<>>, graph |-> {},
             img |-> EmptyRaster, feeds |-> NoFeeds, out |-> NoOutput,
             bbox_res |-> <<>>, prob_res |-> <<>>, bboxes |-> <<>>, k |-> 0,
             output_image |-> EmptyRaster]

NoFile == [written |-> FALSE, image |-> EmptyRaster]

IdleMain ==
    /\ m = MainIdle
    /\ outfile = NoFile

(* ------------------------- raster images ------------------------------ *)
\* Rgba<u8> samples, `data: [r, g, b, a]`
Palette == {<<10, 20, 30, 255>>, <<40, 50, 60, 128>>, <<200, 100, 7, 0>>}

\* a DynamicImage: width, height and the pixel at each <<x, y>>
Rasters(w, h) == {[width |-> w, height |-> h, px |-> f] : f \in [Coords(w, h) -> Palette]}

\* a mutant of ScanPos: the scan runs down the columns
ScanPosColumnMajor(img, k) == <<k \div img.height, k % img.height>>

\* the position of the k-th item (from 0) of GenericImageView::pixels():
\* x runs fastest, y advances at the end of each row
ScanPos(img, k) == <<k % img.width, k \div img.width>>

\* img.pixels(): the items (x, y, pixel) in scan order
Pixels(img) ==
    [k \in 1..(img.width * img.height) |->
        LET pos == ScanPos(img, k - 1)
        IN <<pos[1], pos[2], img.px[pos]>>]

(* ---------------------- building the engine input --------------------- *)
\* a mutant of PushPixel: the samples pushed in R, G, B order
PushPixelRGB(flattened, rgb) ==
    Append(Append(Append(flattened, Index(rgb, 0)), Index(rgb, 1)), Index(rgb, 2))

\* flattened.push(rgb[2] as f32); flattened.push(rgb[1] as f32); flattened.push(rgb[0] as f32)
PushPixel(flattened, rgb) ==
    Append(Append(Append(flattened, Index(rgb, 2)), Index(rgb, 1)), Index(rgb, 0))

\* `for (_x, _y, rgb) in img.pixels() { .. }` from item k on
RECURSIVE FlattenLoop(_, _, _)
FlattenLoop(pixels, k, flattened) ==
    IF k > Len(pixels) THEN flattened
    ELSE FlattenLoop(pixels, k + 1, PushPixel(flattened, pixels[k][3]))

Product(dims) == IF Len(dims) = 0 THEN 1
                 ELSE IF Len(dims) = 1 THEN dims[1]
                 ELSE IF Len(dims) = 2 THEN dims[1] * dims[2]
                 ELSE dims[1] * dims[2] * dims[3]

\* Tensor::new(dims).with_values(values): an error unless the number of
\* values is the product of the dimensions
TensorWithValues(dims, values) ==
    IF Len(values) = Product(dims)
    THEN [status |-> "ok", dims |-> dims, data |-> values]
    ELSE [status |-> "err", dims |-> <<>>, data |-> <<>>]

\* the `input` block of Mtcnn::run (and main)
BuildInput(img) ==
    TensorWithValues(<<img.height, img.width, 3>>, FlattenLoop(Pixels(img), 1, <<>>))

InitInput ==
    /\ IdleParse
    /\ IdleOverlay
    /\ IdleRun
    /\ IdleMain
    /\ \E w \in 0..MaxImgW, h \in 0..MaxImgH : inImg \in Rasters(w, h)
    /\ input = TensorPending

\* the input building part of Mtcnn::run / main, applied to the image
ToEngineInput ==
    /\ input.status = "pending"
    /\ input' = BuildInput(inImg)
    /\ UNCHANGED inImg
    /\ UNCHANGED <<varsParse, varsOverlay, varsRun, varsMain>>

NextInput == ToEngineInput

SpecInput == InitInput /\ [][NextInput]_vars

(* C3: for every image of height H and width W the flattened buffer has    *)
(* length exactly 3*H*W, for every pixel k in row-major scan order (y      *)
(* outer, x inner) the values at offsets 3k, 3k+1, 3k+2 are that pixel's   *)
(* B, G, R samples in that order (alpha dropped), and the tensor shape fed *)
(* is [H, W, 3].                                                           *)
C3_InputLayout ==
    input.status # "pending"
    => /\ input.status = "ok"
       /\ input.dims = <<inImg.height, inImg.width, 3>>
       /\ Len(input.data) = 3 * inImg.height * inImg.width
       /\ \A y \in 0..(inImg.height - 1), x \in 0..(inImg.width - 1) :
            LET k == y * inImg.width + x
                p == inImg.px[<<x, y>>]
            IN /\ Index(input.data, 3 * k) = p[3]
               /\ Index(input.data, 3 * k + 1) = p[2]
               /\ Index(input.data, 3 * k + 2) = p[1]

\* a built input of an image wider than one pixel and higher than one
\* pixel, whose pixels at (1,0) and (0,1) differ
C3_Witness ==
    /\ input.status = "ok"
    /\ inImg.width >= 2 /\ inImg.height >= 2
    /\ inImg.px[<<1, 0>>] # inImg.px[<<0, 1>>]
    /\ Len(input.data) = 3 * inImg.width * inImg.height

(* ------------------- parsing the engine output ------------------------ *)
\* values the modelled engine tensors hold
TensorVals == {0, 1}

\* a mutant of MkBBox: the struct filled in the order of its field names
MkBBoxFieldOrder(boxes, scores, i, j) ==
    [x1 |-> Index(boxes, i), y1 |-> Index(boxes, i + 1),
     x2 |-> Index(boxes, i + 2), y2 |-> Index(boxes, i + 3),
     prob |-> Index(scores, j)]

\* the BBox literal pushed by one iteration of the loop
MkBBox(boxes, scores, i, j) ==
    [y1 |-> Index(boxes, i), x1 |-> Index(boxes, i + 1),
     y2 |-> Index(boxes, i + 2), x2 |-> Index(boxes, i + 3),
     prob |-> Index(scores, j)]

\* `while i < bbox_res.len() { bboxes.push(..); i += 4; j += 1; }`
\* An index past the end of either tensor panics (slice indexing).
RECURSIVE ParseLoop(_, _, _, _, _)
ParseLoop(boxes, scores, i, j, acc) ==
    IF ~(i < Len(boxes))
    THEN [status |-> "ok", bboxes |-> acc]
    ELSE IF i + 3 >= Len(boxes) \/ j >= Len(scores)
         THEN [status |-> "panic", bboxes |-> <<>>]
         ELSE ParseLoop(boxes, scores, i + 4, j + 1,
                        Append(acc, MkBBox(boxes, scores, i, j)))

\* `let mut bboxes = Vec::new(); let mut i = 0; let mut j = 0; while ..`
ParseBoxes(boxes, scores) == ParseLoop(boxes, scores, 0, 0, <<>>)

InitParse ==
    /\ IdleInput
    /\ IdleOverlay
    /\ IdleRun
    /\ IdleMain
    /\ bbox_res \in SeqsUpTo(TensorVals, MaxBoxLen)
    /\ prob_res \in SeqsUpTo(TensorVals, MaxProbLen)
    /\ parseOut = ParsePending

\* the parsing part of Mtcnn::run / main, applied to the fetched tensors
FromEngineOutput ==
    /\ parseOut.status = "pending"
    /\ parseOut' = ParseBoxes(bbox_res, prob_res)
    /\ UNCHANGED <<bbox_res, prob_res>>
    /\ UNCHANGED <<varsInput, varsOverlay, varsRun, varsMain>>

NextParse == FromEngineOutput

SpecParse == InitParse /\ [][NextParse]_vars

(* C1: for every boxes array of length 4N and scores array of length N the *)
(* parse returns exactly N BBox values in input index order, the i-th with *)
(* x1 = boxes[4i+1], y1 = boxes[4i], x2 = boxes[4i+3], y2 = boxes[4i+2],   *)
(* prob = scores[i]; nothing is sorted, dropped or duplicated.             *)
C1_ParseExact ==
    (/\ parseOut.status # "pending"
     /\ Len(bbox_res) = 4 * Len(prob_res))
    => /\ parseOut.status = "ok"
       /\ Len(parseOut.bboxes) = Len(prob_res)
       /\ \A n \in 1..Len(prob_res) :
            LET b == parseOut.bboxes[n]
                i == n - 1
            IN /\ b.x1 = Index(bbox_res, 4 * i + 1)
               /\ b.y1 = Index(bbox_res, 4 * i)
               /\ b.x2 = Index(bbox_res, 4 * i + 3)
               /\ b.y2 = Index(bbox_res, 4 * i + 2)
               /\ b.prob = Index(prob_res, i)

\* two detections parsed, whose x and y fields differ
C1_Witness ==
    /\ parseOut.status = "ok"
    /\ Len(bbox_res) = 8 /\ Len(prob_res) = 2
    /\ Len(parseOut.bboxes) = 2
    /\ parseOut.bboxes[2].x1 # parseOut.bboxes[2].y1
    /\ parseOut.bboxes[1].prob # parseOut.bboxes[2].prob

Malformed(boxes, scores) ==
    \/ Len(boxes) % 4 # 0
    \/ Len(boxes) \div 4 # Len(scores)

(* C2: parsing fails with a MalformedEngineOutput error value (no panic,   *)
(* no truncated or padded result) whenever len(boxes) is not a multiple of *)
(* 4 or len(boxes)/4 differs from len(scores).                             *)
C2_MalformedIsError ==
    (parseOut.status # "pending" /\ Malformed(bbox_res, prob_res))
    => parseOut.status = "MalformedEngineOutput"

\* what the code does instead on malformed tensors: with 4N floats and
\* more than N scores it returns the N boxes and drops the other scores,
\* otherwise it panics
ParseMalformedOutcome ==
    (parseOut.status # "pending" /\ Malformed(bbox_res, prob_res))
    => IF Len(bbox_res) % 4 = 0 /\ Len(prob_res) > Len(bbox_res) \div 4
       THEN parseOut.status = "ok" /\ Len(parseOut.bboxes) = Len(bbox_res) \div 4
       ELSE parseOut.status = "panic"

(* ------------------------------ overlay ------------------------------- *)
\* const LINE_COLOUR: Rgba<u8> = Rgba { data: [0, 255, 0, 0] }
LINE_COLOUR == <<0, 255, 0, 0>>

\* a BBox with coordinates in 1/Scale pixel units
Box(x1, y1, x2, y2) == [x1 |-> x1, y1 |-> y1, x2 |-> x2, y2 |-> y2, prob |-> 1]

\* the boxes overlay is tried on (S = Scale):
\*   a fractional box with a negative origin, an integral 3 by 3 box,
\*   a box with x2 = x1, an inverted box (x2 < x1), and a box narrower
\*   than one pixel
OverlayBoxes ==
    {Box(-1, 0, 3 * Scale - 1, 2 * Scale + 1),
     Box(Scale, 0, 4 * Scale, 3 * Scale),
     Box(Scale, Scale, Scale, 2 * Scale),
     Box(2 * Scale, 0, Scale, Scale),
     Box(0, 0, Scale - 1, Scale)}

\* the images overlay is tried on: one colour of the palette throughout
OverlayImages ==
    {[width |-> OvImgW, height |-> OvImgH, px |-> [c \in Coords(OvImgW, OvImgH) |-> p]] :
        p \in Palette}

\* the integer part of v, rounding toward zero
TruncToZero(v) == IF v >= 0 THEN v \div Scale ELSE -((-v) \div Scale)

\* `v as i32` (the model's coordinates stay far inside the i32 range)
AsI32(v) == TruncToZero(v)

\* `v as u32`: truncation toward zero, a negative value saturating to 0
\* (the model's coordinates stay far below u32::MAX)
AsU32(v) == IF v <= 0 THEN 0 ELSE TruncToZero(v)

NoRect == [status |-> "panic", left |-> 0, top |-> 0, width |-> 0, height |-> 0]

\* imageproc Rect::at(left, top).of_size(width, height): asserts that the
\* width and the height are strictly positive
RectOfSize(left, top, width, height) ==
    IF width > 0 /\ height > 0
    THEN [status |-> "ok", left |-> left, top |-> top, width |-> width, height |-> height]
    ELSE NoRect

\* a mutant of RectOf: each corner cast first, the size their difference
RectOfCastCorners(bbox) ==
    RectOfSize(AsI32(bbox.x1), AsI32(bbox.y1),
               AsU32(bbox.x2) - AsU32(bbox.x1), AsU32(bbox.y2) - AsU32(bbox.y1))

\* Rect::at(bbox.x1 as i32, bbox.y1 as i32)
\*     .of_size((bbox.x2 - bbox.x1) as u32, (bbox.y2 - bbox.y1) as u32)
RectOf(bbox) ==
    RectOfSize(AsI32(bbox.x1), AsI32(bbox.y1),
               AsU32(bbox.x2 - bbox.x1), AsU32(bbox.y2 - bbox.y1))

\* the positions of the four line segments draw_hollow_rect_mut draws:
\* top and bottom rows, left and right columns of the rectangle
OnOutline(rect, pos) ==
    LET right == rect.left + rect.width - 1
        bottom == rect.top + rect.height - 1
    IN /\ rect.left <= pos[1] /\ pos[1] <= right
       /\ rect.top <= pos[2] /\ pos[2] <= bottom
       /\ (pos[1] = rect.left \/ pos[1] = right \/ pos[2] = rect.top \/ pos[2] = bottom)

\* imageproc draw_hollow_rect_mut(image, rect, colour): the outline's
\* positions inside the image take the colour, the rest is clipped
DrawHollowRect(image, rect, colour) ==
    [image EXCEPT !.px = [pos \in DOMAIN image.px |->
                            IF OnOutline(rect, pos) THEN colour ELSE image.px[pos]]]

\* img.clone()
CloneImage(img) == img

\* a mutant of OutputImage: the drawing is done on the caller's image
OutputImageIsSource(c) == 0

\* a mutant of OutputImage: every call draws on one shared buffer
OutputImageShared(c) == 1

\* `let mut output_image`: a local of the call, one per call
OutputImage(c) == c

InitOverlay ==
    /\ IdleParse
    /\ IdleInput
    /\ IdleRun
    /\ IdleMain
    /\ \E img \in OverlayImages :
         rasters = [s \in {0} \cup OverlayCallers |-> IF s = 0 THEN img ELSE EmptyRaster]
    /\ ov = [c \in OverlayCallers |-> OvIdle]

\* overlay(img, bboxes) is entered: `let mut output_image = img.clone()`
OverlayCall(c, boxes) ==
    /\ ov[c].pc = "idle"
    /\ rasters' = [rasters EXCEPT ![OutputImage(c)] = CloneImage(rasters[0])]
    /\ ov' = [ov EXCEPT ![c] = [pc |-> "loop", bboxes |-> boxes, k |-> 0,
                                drawn |-> <<>>, ret |-> EmptyRaster]]
    /\ UNCHANGED <<varsParse, varsInput, varsRun, varsMain>>

\* one iteration of `for bbox in bboxes`: the Rect is made (of_size may
\* panic, and the unwinding drops output_image), then its outline is drawn
OverlayStep(c) ==
    /\ ov[c].pc = "loop"
    /\ ov[c].k < Len(ov[c].bboxes)
    /\ LET rect == RectOf(ov[c].bboxes[ov[c].k + 1])
           out == OutputImage(c)
       IN IF rect.status = "panic"
          THEN /\ ov' = [ov EXCEPT ![c].pc = "panic"]
               /\ rasters' = [rasters EXCEPT ![out] = EmptyRaster]
          ELSE /\ rasters' = [rasters EXCEPT
                                ![out] = DrawHollowRect(rasters[out], rect, LINE_COLOUR)]
               /\ ov' = [ov EXCEPT ![c].k = @ + 1, ![c].drawn = Append(@, rect)]
    /\ UNCHANGED <<varsParse, varsInput, varsRun, varsMain>>

\* the loop is over: `output_image` is moved out to the caller
OverlayReturn(c) ==
    /\ ov[c].pc = "loop"
    /\ ov[c].k = Len(ov[c].bboxes)
    /\ ov' = [ov EXCEPT ![c].pc = "returned", ![c].ret = rasters[OutputImage(c)]]
    /\ rasters' = [rasters EXCEPT ![OutputImage(c)] = EmptyRaster]
    /\ UNCHANGED <<varsParse, varsInput, varsRun, varsMain>>

\* the caller is done with the result (or with the panic) of its call
OverlayDone(c) ==
    /\ ov[c].pc \in {"returned", "panic"}
    /\ ov' = [ov EXCEPT ![c] = OvIdle]
    /\ UNCHANGED rasters
    /\ UNCHANGED <<varsParse, varsInput, varsRun, varsMain>>

NextOverlay ==
    \E c \in OverlayCallers :
        \/ \E boxes \in SeqsUpTo(OverlayBoxes, MaxBoxes) : OverlayCall(c, boxes)
        \/ OverlayStep(c)
        \/ OverlayReturn(c)
        \/ OverlayDone(c)

SpecOverlay == InitOverlay /\ [][NextOverlay]_vars

\* a box whose computed width or height is zero or negative, or truncates
\* to zero
Degenerate(bbox) ==
    \/ bbox.x2 - bbox.x1 < Scale
    \/ bbox.y2 - bbox.y1 < Scale

\* what the code does instead: a call panics exactly at its first
\* degenerate box, and returns only when it was given none
OverlayPanicsAtDegenerate ==
    \A c \in OverlayCallers :
        /\ ov[c].pc = "panic" => Degenerate(ov[c].bboxes[ov[c].k + 1])
        /\ \A n \in 1..ov[c].k : ~Degenerate(ov[c].bboxes[n])
        /\ ov[c].pc = "returned" => ov[c].k = Len(ov[c].bboxes)

(* C4: overlay never panics on a degenerate or inverted box: it completes  *)
(* and returns a raster, drawing nothing or a zero-extent marker for that  *)
(* box, and still processes the remaining boxes.                           *)
C4_OverlayNeverPanics ==
    \A c \in OverlayCallers : ov[c].pc # "panic"

(* C5: overlay never mutates the caller's image: after any sequence of     *)
(* overlay calls the source raster is what it was before the first call,   *)
(* the drawing lands on a fresh clone, and with an empty box sequence the  *)
(* returned raster is identical to a plain clone of the source.            *)
C5_SourceUntouched ==
    /\ [][rasters'[0] = rasters[0]]_vars
    /\ [](\A c \in OverlayCallers :
            /\ (ov[c].pc = "loop" /\ ov[c].k = 0) => rasters[c] = rasters[0]
            /\ (ov[c].pc = "returned" /\ ov[c].bboxes = <<>>) => ov[c].ret = rasters[0])

\* a call has returned a raster it drew on, and a call with no boxes has
\* returned
C5_Witness ==
    /\ ov[1].pc = "returned" /\ Len(ov[1].bboxes) = 2 /\ ov[1].ret # rasters[0]
    /\ ov[2].pc = "returned" /\ ov[2].bboxes = <<>>

(* C6: overlay is deterministic: two calls with the same (image, boxes),   *)
(* in any order relative to other overlay calls, return identical rasters. *)
C6_Deterministic ==
    \A c1, c2 \in OverlayCallers :
        (/\ ov[c1].pc = "returned" /\ ov[c2].pc = "returned"
         /\ ov[c1].bboxes = ov[c2].bboxes)
        => ov[c1].ret = ov[c2].ret

\* two calls with the same two boxes have both returned a drawn raster
C6_Witness ==
    /\ ov[1].pc = "returned" /\ ov[2].pc = "returned"
    /\ ov[1].bboxes = ov[2].bboxes
    /\ Len(ov[1].bboxes) = 2 /\ ov[1].bboxes[1] # ov[1].bboxes[2]
    /\ ov[1].ret # rasters[0]

\* the rectangle the renderer is specified to draw for a box
SpecRect(bbox) ==
    [status |-> "ok", left |-> TruncToZero(bbox.x1), top |-> TruncToZero(bbox.y1),
     width |-> TruncToZero(bbox.x2 - bbox.x1), height |-> TruncToZero(bbox.y2 - bbox.y1)]

(* C9: overlay draws exactly one hollow rectangle per BBox, in the order   *)
(* of the input sequence, the rectangle of a box having origin (x1, y1)    *)
(* each truncated toward zero and size (x2 - x1, y2 - y1), each difference *)
(* computed first and then truncated, in the colour RGB (0, 255, 0).       *)
C9_OneRectPerBox ==
    \A c \in OverlayCallers :
        ov[c].pc \in {"returned", "panic"}
        => /\ Len(ov[c].drawn) = Len(ov[c].bboxes)
           /\ \A n \in 1..Len(ov[c].bboxes) : ov[c].drawn[n] = SpecRect(ov[c].bboxes[n])

\* what holds of every call, finished or not: the rectangles drawn so far
\* are those of the first k boxes, in order, and the pixels of the output
\* are the outline colour on those outlines and the source's elsewhere
OverlayDrawsPrefix ==
    \A c \in OverlayCallers :
        /\ Len(ov[c].drawn) = ov[c].k
        /\ \A n \in 1..ov[c].k : ov[c].drawn[n] = SpecRect(ov[c].bboxes[n])
        /\ LET out == IF ov[c].pc = "returned" THEN ov[c].ret ELSE rasters[c]
           IN (ov[c].pc \in {"loop", "returned"})
              => \A pos \in DOMAIN out.px :
                    out.px[pos] =
                        IF \E n \in 1..ov[c].k : OnOutline(ov[c].drawn[n], pos)
                        THEN <<0, 255, 0, 0>>
                        ELSE rasters[0].px[pos]

(* ------------------------ the Mtcnn session --------------------------- *)
\* the operations run looks up by name
RequiredOps == <<"min_size", "thresholds", "factor", "input", "box", "prob">>

OpNames == {RequiredOps[n] : n \in 1..Len(RequiredOps)}

\* the operations the graph imported from mtcnn.pb may define: all of
\* them, or a model file that lacks one
Graphs == {OpNames, OpNames \ {"prob"}}

\* Mtcnn::new, after its `?`s have passed.  The three f32 hyperparameters
\* are kept in thousandths: 40, (0.6, 0.7, 0.7) and 0.709
MtcnnNew(graph) ==
    [graph |-> graph,
     session |-> "open",
     min_size |-> TensorWithValues(<<>>, <<40000>>),
     thresholds |-> TensorWithValues(<<3>>, <<600, 700, 700>>),
     factor |-> TensorWithValues(<<>>, <<709>>)]

\* the images run is called on
RunImages == Rasters(1, 1)

RunInputs == {BuildInput(img) : img \in RunImages}

EngineErr == [status |-> "err", box |-> <<>>, prob |-> <<>>]

\* what executing the graph on an input may give: a failure, no
\* detection, one detection, or tensors that break the 4N / N contract
EngineResults ==
    {EngineErr,
     [status |-> "ok", box |-> <<>>, prob |-> <<>>],
     [status |-> "ok", box |-> <<1, 2, 3, 4>>, prob |-> <<9>>],
     [status |-> "ok", box |-> <<1, 2, 3, 4, 5>>, prob |-> <<9>>]}

\* self.session.run(&mut args): the outputs the graph computes for the
\* `input` fed; the engine reads nothing but the feeds of these args
EngineRun(feeds) ==
    IF feeds.input \in DOMAIN engine THEN engine[feeds.input] ELSE EngineErr

\* self.graph.operation_by_name_required(name)? for each name in turn
OpsFound(graph) == \A n \in 1..Len(RequiredOps) : RequiredOps[n] \in graph

\* a mutant of Feeds: min_size fed as main.rs sets it (20), not as
\* Mtcnn::new set it
FeedsOwnMinSize(session, in) ==
    [min_size |-> TensorWithValues(<<>>, <<20000>>), thresholds |-> session.thresholds,
     factor |-> session.factor, input |-> in]

\* the four add_feed calls of run
Feeds(session, in) ==
    [min_size |-> session.min_size, thresholds |-> session.thresholds,
     factor |-> session.factor, input |-> in]

\* a mutant of ArgsOf: one SessionRunArgs kept with the session and used
\* by every call
ArgsOfSession(c) == 1

\* `let mut args = SessionRunArgs::new()`: a local of the call
ArgsOf(c) == c

InitRun ==
    /\ IdleParse
    /\ IdleInput
    /\ IdleOverlay
    /\ IdleMain
    /\ \E graph \in Graphs : mtcnn = MtcnnNew(graph)
    /\ engine \in [RunInputs -> EngineResults]
    /\ call = [c \in RunCallers |-> CallIdle]
    /\ args = [c \in RunCallers |-> ArgsEmpty]

UnchangedByRun ==
    UNCHANGED <<varsParse, varsInput, varsOverlay, varsMain, mtcnn, engine>>

\* run(&self, img) is entered
RunCall(c, img) ==
    /\ call[c].pc = "idle"
    /\ call' = [call EXCEPT ![c].pc = "input", ![c].img = img]
    /\ UNCHANGED args
    /\ UnchangedByRun

\* let input = { .. Tensor::new(..).with_values(&flattened)? }
RunBuildInput(c) ==
    /\ call[c].pc = "input"
    /\ LET in == BuildInput(call[c].img)
       IN call' = [call EXCEPT ![c].input = in,
                               ![c].pc = IF in.status = "ok" THEN "feeds" ELSE "err"]
    /\ UNCHANGED args
    /\ UnchangedByRun

\* SessionRunArgs::new(), the add_feed and request_fetch calls; a missing
\* operation returns Err
RunAddFeeds(c) ==
    /\ call[c].pc = "feeds"
    /\ IF OpsFound(mtcnn.graph)
       THEN /\ args' = [args EXCEPT ![ArgsOf(c)] =
                            [feeds |-> Feeds(mtcnn, call[c].input), out |-> NoOutput]]
            /\ call' = [call EXCEPT ![c].pc = "run"]
       ELSE /\ call' = [call EXCEPT ![c].pc = "err"]
            /\ UNCHANGED args
    /\ UnchangedByRun

\* &self.session.run(&mut args)?
RunSession(c) ==
    /\ call[c].pc = "run"
    /\ LET r == EngineRun(args[ArgsOf(c)].feeds)
       IN IF r.status = "ok"
          THEN /\ args' = [args EXCEPT ![ArgsOf(c)].out = r]
               /\ call' = [call EXCEPT ![c].pc = "fetch"]
          ELSE /\ args' = [args EXCEPT ![ArgsOf(c)] = ArgsEmpty]
               /\ call' = [call EXCEPT ![c].pc = "err"]
    /\ UnchangedByRun

\* args.fetch(bbox)?, args.fetch(prob)?: an output that was not computed
\* returns Err
RunFetch(c) ==
    /\ call[c].pc = "fetch"
    /\ LET o == args[ArgsOf(c)].out
       IN IF o.status = "ok"
          THEN call' = [call EXCEPT ![c].bbox_res = o.box, ![c].prob_res = o.prob,
                                    ![c].pc = "parse"]
          ELSE call' = [call EXCEPT ![c].pc = "err"]
    /\ args' = [args EXCEPT ![ArgsOf(c)] = ArgsEmpty]
    /\ UnchangedByRun

\* the parse loop, then Ok(bboxes); an index out of bounds panics
RunParse(c) ==
    /\ call[c].pc = "parse"
    /\ LET r == ParseBoxes(call[c].bbox_res, call[c].prob_res)
       IN call' = [call EXCEPT ![c].result = r, ![c].pc = r.status]
    /\ UNCHANGED args
    /\ UnchangedByRun

\* the caller has taken the Ok, the Err or the panic of its call
RunReturn(c) ==
    /\ call[c].pc \in {"ok", "err", "panic"}
    /\ call' = [call EXCEPT ![c] =
                    [CallIdle EXCEPT !.failedBefore =
                        call[c].failedBefore \/ call[c].pc # "ok"]]
    /\ UNCHANGED args
    /\ UnchangedByRun

NextRun ==
    \E c \in RunCallers :
        \/ \E img \in RunImages : RunCall(c, img)
        \/ RunBuildInput(c)
        \/ RunAddFeeds(c)
        \/ RunSession(c)
        \/ RunFetch(c)
        \/ RunParse(c)
        \/ RunReturn(c)

SpecRun == InitRun /\ [][NextRun]_vars

\* what the engine computes for the image of call c
OwnOutput(c) == engine[BuildInput(call[c].img)]

(* C7: one session shared by concurrent callers of run is safe under every *)
(* interleaving: the input tensor, the run arguments and the fetched       *)
(* outputs are private to a call, so a call that returns Ok returns the    *)
(* boxes the engine produced for its own image, never those of another     *)
(* call, and the session stays usable.                                     *)
C7_OwnBoxes ==
    /\ mtcnn.session = "open"
    /\ \A c \in RunCallers :
        /\ call[c].pc \in {"run", "fetch"} => args[c].feeds.input = BuildInput(call[c].img)
        /\ call[c].pc = "parse"
            => (call[c].bbox_res = OwnOutput(c).box /\ call[c].prob_res = OwnOutput(c).prob)
        /\ call[c].pc = "ok"
            => /\ OwnOutput(c).status = "ok"
               /\ call[c].result.bboxes = ParseBoxes(OwnOutput(c).box, OwnOutput(c).prob).bboxes

\* two calls in flight at once on different images have both returned Ok,
\* one with a detection and one with none
C7_Witness ==
    /\ call[1].pc = "ok" /\ call[2].pc = "ok"
    /\ call[1].img # call[2].img
    /\ Len(call[1].result.bboxes) = 1
    /\ Len(call[2].result.bboxes) = 0

\* the outcome of run(img) on a session fresh from Mtcnn::new
FreshRun(graph, img) ==
    LET in == BuildInput(img)
    IN IF in.status # "ok" \/ ~OpsFound(graph) \/ engine[in].status # "ok"
       THEN [status |-> "err", bboxes |-> <<>>]
       ELSE ParseBoxes(engine[in].box, engine[in].prob)

(* C8: a failing run call leaves the session intact: after any sequence of *)
(* run calls, Ok or Err, the graph, the execution context and the tensors  *)
(* min_size, thresholds and factor hold the values set in Mtcnn::new, the  *)
(* same hyperparameters are fed on every call, and a later call succeeds   *)
(* exactly as it would on a fresh session.                                 *)
C8_SessionIntact ==
    /\ [][mtcnn' = mtcnn]_vars
    /\ [](/\ mtcnn.session = "open"
          /\ mtcnn.min_size = [status |-> "ok", dims |-> <<>>, data |-> <<40000>>]
          /\ mtcnn.thresholds = [status |-> "ok", dims |-> <<3>>, data |-> <<600, 700, 700>>]
          /\ mtcnn.factor = [status |-> "ok", dims |-> <<>>, data |-> <<709>>]
          /\ \A c \in RunCallers :
                /\ call[c].pc \in {"run", "fetch"}
                    => /\ args[c].feeds.min_size = mtcnn.min_size
                       /\ args[c].feeds.thresholds = mtcnn.thresholds
                       /\ args[c].feeds.factor = mtcnn.factor
                /\ call[c].pc \in {"ok", "err", "panic"}
                    => /\ call[c].pc = FreshRun(mtcnn.graph, call[c].img).status
                       /\ call[c].pc = "ok"
                            => call[c].result.bboxes
                                = FreshRun(mtcnn.graph, call[c].img).bboxes)

\* a caller whose earlier call failed has a later call returning Ok with a
\* detection, while the other caller's call has just failed
C8_Witness ==
    /\ call[1].failedBefore
    /\ call[1].pc = "ok" /\ Len(call[1].result.bboxes) = 1
    /\ call[2].pc = "err"

(* ------------------------ the pipeline of main ------------------------ *)
\* the statements of main in program order; "exit" is the return of main
\* or its panic
MainOrder == <<"import", "open", "input", "feeds", "session", "run", "fetch",
               "parse", "clone", "render", "save", "exit">>

Rank(pc) == CHOOSE n \in 1..Len(MainOrder) : MainOrder[n] = pc

\* the `box` tensor of a sequence of detections: (y1, x1, y2, x2) each
BoxTensor(bs) ==
    [n \in 1..(4 * Len(bs)) |->
        LET b == bs[((n - 1) \div 4) + 1]
            f == (n - 1) % 4
        IN IF f = 0 THEN b.y1 ELSE IF f = 1 THEN b.x1 ELSE IF f = 2 THEN b.y2 ELSE b.x2]

ProbTensor(bs) == [n \in 1..Len(bs) |-> bs[n].prob]

\* what executing the graph may give main: a failure, the tensors of up to
\* MaxBoxes detections, or tensors that break the 4N / N contract
MainEngineResults ==
    {EngineErr, [status |-> "ok", box |-> <<0>>, prob |-> <<>>]}
    \cup {[status |-> "ok", box |-> BoxTensor(bs), prob |-> ProbTensor(bs)] :
            bs \in SeqsUpTo(OverlayBoxes, MaxBoxes)}

\* the images the input file may decode to
MainImages == OverlayImages

\* the four add_feed calls of main, min_size being 20 there
MainFeeds(in) ==
    [min_size |-> TensorWithValues(<<>>, <<20000>>),
     thresholds |-> TensorWithValues(<<3>>, <<600, 700, 700>>),
     factor |-> TensorWithValues(<<>>, <<709>>),
     input |-> in]

InitMain ==
    /\ IdleParse
    /\ IdleInput
    /\ IdleOverlay
    /\ IdleRun
    /\ m = [MainIdle EXCEPT !.pc = "import", !.trail = <<Rank("import")>>]
    /\ outfile = NoFile

\* main goes on to statement pc
MainGoto(pc) == [m EXCEPT !.pc = pc, !.trail = Append(@, Rank(pc))]

\* a `?` returns the Err from main
MainErr == [m EXCEPT !.pc = "exit", !.outcome = "err", !.trail = Append(@, Rank("exit"))]

\* a panic unwinds main
MainPanic == [m EXCEPT !.pc = "exit", !.outcome = "panic", !.trail = Append(@, Rank("exit"))]

UnchangedByMain == UNCHANGED <<varsParse, varsInput, varsOverlay, varsRun>>

\* graph.import_graph_def(&*model, ..)?
MainImportGraph ==
    /\ m.pc = "import"
    /\ \/ \E graph \in Graphs : m' = [MainGoto("open") EXCEPT !.graph = graph]
       \/ m' = MainErr
    /\ UNCHANGED outfile
    /\ UnchangedByMain

\* let input_image = image::open(&opt.input)?
MainOpenImage ==
    /\ m.pc = "open"
    /\ \/ \E img \in MainImages : m' = [MainGoto("input") EXCEPT !.img = img]
       \/ m' = MainErr
    /\ UNCHANGED outfile
    /\ UnchangedByMain

\* the flattening loop and the four tensors, each with its `?`
MainBuildInput ==
    /\ m.pc = "input"
    /\ LET in == BuildInput(m.img)
       IN m' = IF in.status = "ok"
               THEN [MainGoto("feeds") EXCEPT !.feeds = MainFeeds(in)]
               ELSE MainErr
    /\ UNCHANGED outfile
    /\ UnchangedByMain

\* the add_feed and request_fetch calls with their operation lookups
MainAddFeeds ==
    /\ m.pc = "feeds"
    /\ m' = IF OpsFound(m.graph) THEN MainGoto("session") ELSE MainErr
    /\ UNCHANGED outfile
    /\ UnchangedByMain

\* let mut session = Session::new(&SessionOptions::new(), &graph)?
MainSessionNew ==
    /\ m.pc = "session"
    /\ \/ m' = MainGoto("run")
       \/ m' = MainErr
    /\ UNCHANGED outfile
    /\ UnchangedByMain

\* session.run(&mut args)?
MainSessionRun ==
    /\ m.pc = "run"
    /\ \E r \in MainEngineResults :
         m' = IF r.status = "ok" THEN [MainGoto("fetch") EXCEPT !.out = r] ELSE MainErr
    /\ UNCHANGED outfile
    /\ UnchangedByMain

\* args.fetch(bbox)?, args.fetch(prob)?
MainFetch ==
    /\ m.pc = "fetch"
    /\ m' = IF m.out.status = "ok"
            THEN [MainGoto("parse") EXCEPT !.bbox_res = m.out.box, !.prob_res = m.out.prob]
            ELSE MainErr
    /\ UNCHANGED outfile
    /\ UnchangedByMain

\* the parse loop and the println!
MainParse ==
    /\ m.pc = "parse"
    /\ LET r == ParseBoxes(m.bbox_res, m.prob_res)
       IN m' = IF r.status = "ok"
               THEN [MainGoto("clone") EXCEPT !.bboxes = r.bboxes]
               ELSE MainPanic
    /\ UNCHANGED outfile
    /\ UnchangedByMain

\* let mut output_image = input_image.clone()
MainClone ==
    /\ m.pc = "clone"
    /\ m' = [MainGoto("render") EXCEPT !.output_image = CloneImage(m.img), !.k = 0]
    /\ UNCHANGED outfile
    /\ UnchangedByMain

\* one iteration of `for bbox in bboxes`, or the end of the loop
MainRenderStep ==
    /\ m.pc = "render"
    /\ IF m.k < Len(m.bboxes)
       THEN LET rect == RectOf(m.bboxes[m.k + 1])
            IN m' = IF rect.status = "panic"
                    THEN MainPanic
                    ELSE [MainGoto("render") EXCEPT
                            !.output_image = DrawHollowRect(@, rect, LINE_COLOUR),
                            !.k = @ + 1]
       ELSE m' = MainGoto("save")
    /\ UNCHANGED outfile
    /\ UnchangedByMain

\* output_image.save(&opt.output)?; Ok(()).  A failing save may have left
\* a file behind
MainSave ==
    /\ m.pc = "save"
    /\ \/ /\ m' = [MainGoto("exit") EXCEPT !.outcome = "ok"]
          /\ outfile' = [written |-> TRUE, image |-> m.output_image]
       \/ /\ m' = MainErr
          /\ \/ UNCHANGED outfile
             \/ outfile' = [written |-> TRUE, image |-> EmptyRaster]
    /\ UnchangedByMain

NextMain ==
    \/ MainImportGraph
    \/ MainOpenImage
    \/ MainBuildInput
    \/ MainAddFeeds
    \/ MainSessionNew
    \/ MainSessionRun
    \/ MainFetch
    \/ MainParse
    \/ MainClone
    \/ MainRenderStep
    \/ MainSave

SpecMain == InitMain /\ [][NextMain]_vars

\* the statements of main are passed in program order, none twice except
\* the iterations of the render loop
MainForward ==
    \A i, j \in 1..Len(m.trail) :
        i < j => \/ m.trail[i] < m.trail[j]
                 \/ (m.trail[i] = m.trail[j] /\ m.trail[i] = Rank("render"))

\* the output file is written by the save statement only
MainWritesLast ==
    outfile.written
    => /\ m.pc = "exit"
       /\ m.trail[Len(m.trail) - 1] = Rank("save")

(* C10: each run of the pipeline in main moves through its stages strictly *)
(* forward and never revisits an earlier one; a failure at any stage ends  *)
(* the run in a failed outcome reported as an error value; the output      *)
(* image is written only in the final stage, so a run that fails before    *)
(* that stage writes no output.                                            *)
C10_ForwardErrValueWriteLast ==
    /\ MainForward
    /\ MainWritesLast
    /\ m.outcome \in {"running", "ok", "err"}

=============================================================================
